---------------------------- MODULE Spec2Model ----------------------------
(***************************************************************************)
(* A model of borrow.h: the owning RefCell<T>, its borrow handles Ref<T>   *)
(* and RefMut<T>, and the borrow-state counter cnt_ they share.            *)
(*                                                                         *)
(* A failed borrow_verify prints its message and calls std::abort(): the   *)
(* model records the message in `violation' and the program takes no       *)
(* further step.  A dereference of a null p_cnt_ ends the program too      *)
(* (`fault').  The storage of a destroyed RefCell is freed memory: a       *)
(* handle that still points to its counter reads an arbitrary value there  *)
(* (DanglingVals) and its write lands in storage the model does not hold.  *)
(* Handles carry no identity of their own, so `handles' is the bag of the  *)
(* Ref and RefMut objects that exist.                                      *)
(*                                                                         *)
(* Every action of Spec is one whole member function, run to its end or to *)
(* the failed borrow_verify: a client that calls one function at a time.   *)
(* SpecThreads is the client with several threads: borrow_mut,             *)
(* borrow_const and the RefCell move constructor are taken one atomic      *)
(* access of cnt_ at a time, and `calls' holds the calls that are under    *)
(* way.  Outside the model: handles the client default-constructs (Ref(),  *)
(* RefMut()), and member functions called on a RefCell after its           *)
(* destructor ran.                                                         *)
(***************************************************************************)
EXTENDS Integers, FiniteSets, Sequences, Bags, TLC

\* ------------------------------------------------------------------ bounds
NumCells    == 2     \* RefCell objects ever constructed in one run
MaxHandles  == 3     \* Ref / RefMut objects existing at one time
MaxPtrs     == 1     \* heap values ever allocated (new T) in one run
MaxDangling == 0     \* a read of freed memory yields -MaxDangling-1 .. MaxDangling
MaxCycles   == 2     \* borrow_mut/release cycles the observer cyc counts
MaxCalls    == 2     \* threads, each with at most one call under way

\* --------------------------------------------------------------- constants
NULL     == 0                      \* nullptr, for pointers to T and to counters
Int32Max == 2147483647             \* std::atomic<int32_t>
Int32Min == -Int32Max - 1

Cells        == 1..NumCells
Ptrs         == 1..MaxPtrs
DanglingVals == (-MaxDangling - 1)..MaxDangling

VARIABLES
  cells,       \* cells[c]   : a RefCell  [st, raw_, cnt_]
  handles,     \* the bag of Ref and RefMut objects [kind, raw_, p_cnt_]
  heap,        \* heap[p]    : "unalloc", "live" or "deleted"
  violation,   \* "" or the message of the borrow_verify that failed
  fault,       \* TRUE once a null p_cnt_ was dereferenced
  last,        \* the operation that ran last, with what it read and was given
  rt,          \* observer of one shared round trip (SpecRoundTrip)
  cyc,         \* observer of one run of exclusive borrow cycles (SpecCycles)
  given,       \* observer (SpecValues): given[c] is the value RefCell c was
               \* given and has not deleted
  calls        \* the bag of calls under way in some thread [pc, cell, i, dst, ovl]

vars == <<cells, handles, heap, violation, fault, last, rt, cyc, given, calls>>

\* ------------------------------------------------------------- the objects
NoCell   == [st |-> "unborn", raw_ |-> NULL, cnt_ |-> 0]
\* `last': the operation, the RefCell it acted on, the counter value it read, the
\* pointer it was given or took, the object a move constructed, and whether its
\* return ended the overlap of a RefCell move with a borrow of the move's source
NoOp     == [op |-> "", cell |-> NULL, i |-> 0, p |-> NULL, dst |-> NULL,
             raced |-> FALSE]

\* Ref / RefMut as borrow_const / borrow_mut / the copy and move constructors fill them
MkHandle(k, raw, pcnt) == [kind |-> k, raw_ |-> raw, p_cnt_ |-> pcnt]

\* operator++(int) as it would be if it added two
Inc_twice(i) == IF i >= Int32Max - 1 THEN Int32Min ELSE i + 2

\* std::atomic<int32_t>::operator++(int) and operator--(int): the stored value wraps
Inc(i) == IF i = Int32Max THEN Int32Min ELSE i + 1
Dec(i) == IF i = Int32Min THEN Int32Max ELSE i - 1

\* The conditions handed to borrow_verify.  Each is preceded by a faulty variant
\* of it, which the claims below must tell from the code's condition.
borrow_mut_verify_shared_ok(cnt) == cnt >= 0        \* tests only for a RefMut
borrow_mut_verify(cnt)   == cnt = 0
borrow_const_verify_new_value(i) == i + 1 >= 0      \* tests the incremented value
borrow_const_verify(i)   == i >= 0
Ref_copy_verify(i)       == i > 0
Ref_reset_verify(i)      == i > 0
Ref_dtor_verify_zero_ok(i) == i >= 0                \* lets a release at 0 pass
Ref_dtor_verify(i)       == i > 0
RefMut_reset_verify_zero_ok(i) == i <= 0            \* lets a release at 0 pass
RefMut_reset_verify(i)   == i = -1
RefMut_dtor_verify_new_value(i) == i = 0            \* tests the incremented value
RefMut_dtor_verify(i)    == i = -1
RefCell_move_verify_shared_ok(i) == i >= 0          \* tests only for a RefMut
RefCell_move_verify(i)   == i = 0
RefCell_reset_p_verify(cnt) == cnt = 0
RefCell_arrow_verify_shared_ok(cnt) == cnt >= 0     \* tests only for a RefMut
RefCell_arrow_verify(cnt)   == cnt = 0
RefCell_reset_verify(cnt)   == cnt = 0

Running == violation = "" /\ ~fault

Min(S) == CHOOSE x \in S : \A y \in S : x <= y

\* the handle objects that exist, and room for one more
Handles    == BagToSet(handles)
\* calls under way at one of the steps pcs on RefCell c
InProgress(pcs, c) ==
  LET S == {k \in BagToSet(calls) : k.pc \in pcs /\ k.cell = c}
  IN  BagCardinality([k \in S |-> calls[k]])
\* a borrow under way already holds the handle object it will return
Acquiring ==
  LET S == {k \in BagToSet(calls) : k.pc \in {"cnt_--", "return"}}
  IN  BagCardinality([k \in S |-> calls[k]])
HasRoom    == BagCardinality(handles) + Acquiring < MaxHandles
Put(r)     == handles (+) SetToBag({r})
Drop(r)    == handles (-) SetToBag({r})

\* *p_cnt_ for a handle pointing at cell c: the counter, or freed memory
CounterReads(c) == IF cells[c].st = "alive" THEN {cells[c].cnt_} ELSE DanglingVals
Store(c, v)     == IF cells[c].st = "alive" THEN [cells EXCEPT ![c].cnt_ = v] ELSE cells
UnbornCells == {c \in Cells : cells[c].st = "unborn"}
UnallocPtrs == {p \in Ptrs : heap[p] = "unalloc"}

\* the argument of RefCell(T* p) and reset(T* p): nullptr or a fresh `new T'
NewValues == {NULL} \cup (IF UnallocPtrs = {} THEN {} ELSE {Min(UnallocPtrs)})
Alloc(p)  == IF p = NULL THEN heap ELSE [heap EXCEPT ![p] = "live"]
\* delete raw_ (delete of nullptr does nothing)
Delete(p) == IF p = NULL THEN heap ELSE [heap EXCEPT ![p] = "deleted"]

\* the observers before they are started
NoValues == << >>
NoRoundTrip == [st |-> "idle", cell |-> NULL, base |-> 0, pend |-> 0, peak |-> 0]
NoCycles    == [st |-> "idle", cell |-> NULL, n |-> 0, held |-> FALSE]

\* No RefCell, no handle and no call yet.
Empty ==
  /\ cells     = [c \in Cells |-> NoCell]
  /\ handles   = EmptyBag
  /\ heap      = [p \in Ptrs |-> "unalloc"]
  /\ violation = ""
  /\ fault     = FALSE
  /\ last      = NoOp
  /\ rt        = NoRoundTrip
  /\ cyc       = NoCycles
  /\ calls     = EmptyBag

Init ==
  /\ Empty
  /\ given = NoValues


\* ---------------------------------------------------------------- observers
\* The observers read the operation just taken (last') and change nothing of the
\* program.  rt follows, on one RefCell, Ref handles being acquired and released
\* from the moment RoundTripBegin noted the counter; cyc follows, on one RefCell,
\* borrow_mut alternating with the release of the RefMut.  An operation on that
\* RefCell that is no part of the scenario ends the observation.
Max(a, b) == IF a >= b THEN a ELSE b
Least(a, b) == IF a <= b THEN a ELSE b

RoundTripAfter(op) ==
  IF rt.st # "open" \/ op.cell # rt.cell THEN rt
  ELSE IF op.op \in {"borrow_const", "Ref(Ref&)"}
         THEN [rt EXCEPT !.pend = rt.pend + 1, !.peak = Max(rt.peak, rt.pend + 1)]
  ELSE IF op.op \in {"Ref::reset", "~Ref"} /\ rt.pend > 0
         THEN [rt EXCEPT !.pend = rt.pend - 1]
  ELSE IF op.op = "Ref(Ref&&)" THEN rt
  ELSE [NoRoundTrip EXCEPT !.st = "closed"]

CyclesAfter(op) ==
  IF cyc.st # "open" \/ op.cell # cyc.cell THEN cyc
  ELSE IF op.op = "borrow_mut" /\ ~cyc.held
         THEN [cyc EXCEPT !.held = TRUE]
  ELSE IF op.op \in {"RefMut::reset", "~RefMut"} /\ cyc.held
         THEN [cyc EXCEPT !.held = FALSE, !.n = Least(cyc.n + 1, MaxCycles)]
  ELSE IF op.op = "RefMut(RefMut&&)" THEN cyc
  ELSE [NoCycles EXCEPT !.st = "closed"]

\* The value a RefCell owns by what it was told: the argument of its constructor
\* or of its last reset(T*), handed on by a move, until reset() deletes it.  It is
\* kept for a destroyed RefCell, to tell what its destructor had to delete.
\* SpecValues observes it from the start; the other specifications do not.
GivenAfter(op, signalled) ==
  IF given = NoValues \/ signalled # "" THEN given
  ELSE IF op.op \in {"RefCell", "RefCell::reset(T*)"}
         THEN [given EXCEPT ![op.cell] = op.p]
  ELSE IF op.op = "RefCell(RefCell&&)"
         THEN [given EXCEPT ![op.dst] = given[op.cell], ![op.cell] = NULL]
  ELSE IF op.op = "RefCell::reset()"
         THEN [given EXCEPT ![op.cell] = NULL]
  ELSE given

Observe ==
  /\ rt'    = RoundTripAfter(last')
  /\ cyc'   = CyclesAfter(last')
  /\ given' = GivenAfter(last', violation')

\* A member function run as one step: it starts and ends no call of `calls'.
Whole ==
  /\ UNCHANGED calls
  /\ Observe

\* ------------------------------------------------------------------ RefCell

\* RefCell() (p = nullptr) and explicit RefCell(T* p)
RefCell_ctor(p) ==
  /\ Running
  /\ UnbornCells # {}
  /\ LET c == Min(UnbornCells) IN
       /\ cells' = [cells EXCEPT ![c] = [st |-> "alive", raw_ |-> p, cnt_ |-> 0]]
       /\ last'  = [NoOp EXCEPT !.op = "RefCell", !.cell = c, !.p = p]
  /\ heap' = Alloc(p)
  /\ UNCHANGED <<handles, violation, fault>>
  /\ Whole

\* RefCell(RefCell&& p): src is p, the new object takes the next cell
RefCell_move(src) ==
  /\ Running
  /\ cells[src].st = "alive"
  /\ UnbornCells # {}
  /\ LET dst == Min(UnbornCells)
         i   == cells[src].cnt_                       \* p.cnt_.exchange(-2)
     IN
       /\ last' = [NoOp EXCEPT !.op = "RefCell(RefCell&&)", !.cell = src,
                               !.i = i, !.p = cells[src].raw_, !.dst = dst]
       /\ IF ~RefCell_move_verify(i)
            THEN /\ cells' = [cells EXCEPT ![src].cnt_ = -2]
                 /\ violation' = "verify failed in RefCell move constructor"
            ELSE \* cnt_{0} passes the second borrow_verify; cnt_ = i; raw_ = p.raw_;
                 \* p.raw_ = nullptr; p.cnt_ = 0
                 /\ cells' = [cells EXCEPT
                                ![dst] = [st |-> "alive", raw_ |-> cells[src].raw_, cnt_ |-> i],
                                ![src] = [st |-> "alive", raw_ |-> NULL, cnt_ |-> 0]]
                 /\ violation' = violation
  /\ UNCHANGED <<handles, heap, fault>>
  /\ Whole

\* void reset(T* p)
RefCell_reset_p(c, p) ==
  /\ Running
  /\ cells[c].st = "alive"
  /\ last' = [NoOp EXCEPT !.op = "RefCell::reset(T*)", !.cell = c,
                          !.i = cells[c].cnt_, !.p = p]
  /\ IF ~RefCell_reset_p_verify(cells[c].cnt_)
       THEN /\ violation' = "error in RefCell reset"
            /\ UNCHANGED <<cells, heap>>
       ELSE \* raw_ = p; the second borrow_verify reads the same counter
            /\ cells' = [cells EXCEPT ![c].raw_ = p]
            /\ heap'  = Alloc(p)
            /\ violation' = violation
  /\ UNCHANGED <<handles, fault>>
  /\ Whole

\* RefMut<T> borrow_mut()
borrow_mut(c) ==
  /\ Running
  /\ cells[c].st = "alive"
  /\ last' = [NoOp EXCEPT !.op = "borrow_mut", !.cell = c, !.i = cells[c].cnt_,
                          !.p = cells[c].raw_]
  /\ IF ~borrow_mut_verify(cells[c].cnt_)
       THEN /\ violation' = "verify failed in borrow_mut"
            /\ UNCHANGED <<cells, handles>>
       ELSE /\ HasRoom
            /\ cells' = [cells EXCEPT ![c].cnt_ = Dec(cells[c].cnt_), ![c].raw_ = NULL]
            /\ handles' = Put(MkHandle("RefMut", cells[c].raw_, c))
            /\ violation' = violation
  /\ UNCHANGED <<heap, fault>>
  /\ Whole

\* Ref<T> borrow_const()
borrow_const(c) ==
  /\ Running
  /\ cells[c].st = "alive"
  /\ LET i == cells[c].cnt_ IN                         \* auto i = cnt_++
       /\ last' = [NoOp EXCEPT !.op = "borrow_const", !.cell = c, !.i = i,
                               !.p = cells[c].raw_]
       /\ cells' = [cells EXCEPT ![c].cnt_ = Inc(i)]
       /\ IF ~borrow_const_verify(i)
            THEN /\ violation' = "verify failed in borrow_const"
                 /\ UNCHANGED handles
            ELSE /\ HasRoom
                 /\ handles' = Put(MkHandle("Ref", cells[c].raw_, c))
                 /\ violation' = violation
  /\ UNCHANGED <<heap, fault>>
  /\ Whole

\* T* operator->()
RefCell_arrow(c) ==
  /\ Running
  /\ cells[c].st = "alive"
  /\ last' = [NoOp EXCEPT !.op = "RefCell::operator->", !.cell = c,
                          !.i = cells[c].cnt_, !.p = cells[c].raw_]
  /\ violation' = IF RefCell_arrow_verify(cells[c].cnt_) THEN violation
                  ELSE "verify failed in ->"
  /\ UNCHANGED <<cells, handles, heap, fault>>
  /\ Whole

\* void reset()
RefCell_reset(c) ==
  /\ Running
  /\ cells[c].st = "alive"
  /\ last' = [NoOp EXCEPT !.op = "RefCell::reset()", !.cell = c,
                          !.i = cells[c].cnt_, !.p = cells[c].raw_]
  /\ IF ~RefCell_reset_verify(cells[c].cnt_)
       THEN /\ violation' = "verify failed in RefCell reset"
            /\ UNCHANGED <<cells, heap>>
       ELSE /\ heap'  = Delete(cells[c].raw_)
            /\ cells' = [cells EXCEPT ![c].raw_ = NULL]
            /\ violation' = violation
  /\ UNCHANGED <<handles, fault>>
  /\ Whole

\* ~RefCell(): reset() when raw_ is set; then the object's storage is gone
RefCell_dtor(c) ==
  /\ Running
  /\ cells[c].st = "alive"
  /\ last' = [NoOp EXCEPT !.op = "~RefCell", !.cell = c, !.i = cells[c].cnt_,
                          !.p = cells[c].raw_]
  /\ IF cells[c].raw_ # NULL /\ ~RefCell_reset_verify(cells[c].cnt_)
       THEN /\ violation' = "verify failed in RefCell reset"
            /\ UNCHANGED <<cells, heap>>
       ELSE /\ heap'  = Delete(cells[c].raw_)
            /\ cells' = [cells EXCEPT ![c] = [st |-> "dead", raw_ |-> NULL, cnt_ |-> 0]]
            /\ violation' = violation
  /\ UNCHANGED <<handles, fault>>
  /\ Whole

\* ---------------------------------------------------------------------- Ref

\* faulty variant of Ref_copy: a memberwise copy, the counter is not incremented
Ref_copy_memberwise(r) ==
  /\ Running
  /\ r.kind = "Ref"
  /\ r.p_cnt_ # NULL
  /\ HasRoom
  /\ \E i \in CounterReads(r.p_cnt_) :
       last' = [NoOp EXCEPT !.op = "Ref(Ref&)", !.cell = r.p_cnt_, !.i = i]
  /\ handles' = Put(MkHandle("Ref", r.raw_, r.p_cnt_))
  /\ UNCHANGED <<cells, heap, violation, fault>>
  /\ Whole

\* Ref(Ref& p): the copy points where p points and increments that counter
Ref_copy(r) ==
  /\ Running
  /\ r.kind = "Ref"
  /\ r.p_cnt_ # NULL
  /\ \E i \in CounterReads(r.p_cnt_) :                 \* auto i = (*p_cnt_)++
       /\ last' = [NoOp EXCEPT !.op = "Ref(Ref&)", !.cell = r.p_cnt_, !.i = i]
       /\ cells' = Store(r.p_cnt_, Inc(i))
       /\ IF ~Ref_copy_verify(i)
            THEN /\ violation' = "error in Ref constructor"
                 /\ UNCHANGED handles
            ELSE /\ HasRoom
                 /\ handles' = Put(MkHandle("Ref", r.raw_, r.p_cnt_))
                 /\ violation' = violation
  /\ UNCHANGED <<heap, fault>>
  /\ Whole

\* faulty variant of Ref_move: p keeps its fields
Ref_move_keeps_source(r) ==
  /\ Running
  /\ r.kind = "Ref"
  /\ HasRoom
  /\ handles' = Put(r)
  /\ last' = [NoOp EXCEPT !.op = "Ref(Ref&&)", !.cell = r.p_cnt_]
  /\ UNCHANGED <<cells, heap, violation, fault>>
  /\ Whole

\* Ref(Ref&& p): the new object takes p's fields, p is left null
Ref_move(r) ==
  /\ Running
  /\ r.kind = "Ref"
  /\ HasRoom
  \* the bag gains the moved-from object; the new object is r as it was
  /\ handles' = Put(MkHandle("Ref", NULL, NULL))
  /\ last' = [NoOp EXCEPT !.op = "Ref(Ref&&)", !.cell = r.p_cnt_]
  /\ UNCHANGED <<cells, heap, violation, fault>>
  /\ Whole

\* Ref::reset() as it would be without p_cnt_ = nullptr: the destructor then
\* decrements a second time
Ref_reset_keeps_p_cnt_(r) ==
  /\ Running
  /\ r.kind = "Ref"
  /\ r.p_cnt_ # NULL
  /\ \E i \in CounterReads(r.p_cnt_) :
       /\ last' = [NoOp EXCEPT !.op = "Ref::reset", !.cell = r.p_cnt_, !.i = i]
       /\ cells' = Store(r.p_cnt_, Dec(i))
       /\ IF ~Ref_reset_verify(i)
            THEN /\ violation' = "Trying to reset null pointer"
                 /\ UNCHANGED handles
            ELSE /\ handles' = Drop(r) (+) SetToBag({MkHandle("Ref", NULL, r.p_cnt_)})
                 /\ violation' = violation
  /\ UNCHANGED <<heap, fault>>
  /\ Whole

\* void Ref::reset()
Ref_reset(r) ==
  /\ Running
  /\ r.kind = "Ref"
  /\ r.p_cnt_ # NULL
  /\ \E i \in CounterReads(r.p_cnt_) :                 \* auto i = (*p_cnt_)--
       /\ last' = [NoOp EXCEPT !.op = "Ref::reset", !.cell = r.p_cnt_, !.i = i]
       /\ cells' = Store(r.p_cnt_, Dec(i))
       /\ IF ~Ref_reset_verify(i)
            THEN /\ violation' = "Trying to reset null pointer"
                 /\ UNCHANGED handles
            ELSE /\ handles' = Drop(r) (+) SetToBag({MkHandle("Ref", NULL, NULL)})
                 /\ violation' = violation
  /\ UNCHANGED <<heap, fault>>
  /\ Whole

\* Ref::~Ref()
Ref_dtor(r) ==
  /\ Running
  /\ r.kind = "Ref"
  /\ IF r.p_cnt_ = NULL
       THEN /\ handles' = Drop(r)
            /\ last' = [NoOp EXCEPT !.op = "~Ref"]
            /\ UNCHANGED <<cells, violation>>
       ELSE \E i \in CounterReads(r.p_cnt_) :          \* auto i = (*p_cnt_)--
            /\ last' = [NoOp EXCEPT !.op = "~Ref", !.cell = r.p_cnt_, !.i = i]
            /\ cells' = Store(r.p_cnt_, Dec(i))
            /\ IF ~Ref_dtor_verify(i)
                 THEN /\ violation' = "Trying to dereference null pointer"
                      /\ UNCHANGED handles
                 ELSE /\ handles' = Drop(r)
                      /\ violation' = violation
  /\ UNCHANGED <<heap, fault>>
  /\ Whole

\* ------------------------------------------------------------------- RefMut

\* RefMut(RefMut&& p)
RefMut_move(r) ==
  /\ Running
  /\ r.kind = "RefMut"
  /\ HasRoom
  \* the bag gains the moved-from object; the new object is r as it was
  /\ handles' = Put(MkHandle("RefMut", NULL, NULL))
  /\ last' = [NoOp EXCEPT !.op = "RefMut(RefMut&&)", !.cell = r.p_cnt_]
  /\ UNCHANGED <<cells, heap, violation, fault>>
  /\ Whole

\* RefMut::reset() as it would be if the release handed the pointer back to the
\* RefCell
RefMut_reset_restores(r) ==
  /\ Running
  /\ r.kind = "RefMut"
  /\ r.p_cnt_ # NULL
  /\ \E i \in CounterReads(r.p_cnt_) :
       /\ last' = [NoOp EXCEPT !.op = "RefMut::reset", !.cell = r.p_cnt_, !.i = i,
                               !.p = r.raw_]
       /\ IF ~RefMut_reset_verify(i)
            THEN /\ cells' = Store(r.p_cnt_, Inc(i))
                 /\ violation' = "error in RefMut reset"
                 /\ UNCHANGED handles
            ELSE /\ cells' = IF cells[r.p_cnt_].st = "alive"
                               THEN [cells EXCEPT ![r.p_cnt_].cnt_ = Inc(i),
                                                  ![r.p_cnt_].raw_ = r.raw_]
                               ELSE cells
                 /\ handles' = Drop(r) (+) SetToBag({MkHandle("RefMut", NULL, NULL)})
                 /\ violation' = violation
  /\ UNCHANGED <<heap, fault>>
  /\ Whole

\* void RefMut::reset()
RefMut_reset(r) ==
  /\ Running
  /\ r.kind = "RefMut"
  /\ r.p_cnt_ # NULL
  /\ \E i \in CounterReads(r.p_cnt_) :                 \* auto i = (*p_cnt_)++
       /\ last' = [NoOp EXCEPT !.op = "RefMut::reset", !.cell = r.p_cnt_, !.i = i,
                               !.p = r.raw_]
       /\ cells' = Store(r.p_cnt_, Inc(i))
       /\ IF ~RefMut_reset_verify(i)
            THEN /\ violation' = "error in RefMut reset"
                 /\ UNCHANGED handles
            ELSE /\ handles' = Drop(r) (+) SetToBag({MkHandle("RefMut", NULL, NULL)})
                 /\ violation' = violation
  /\ UNCHANGED <<heap, fault>>
  /\ Whole

\* RefMut::~RefMut()
RefMut_dtor(r) ==
  /\ Running
  /\ r.kind = "RefMut"
  /\ IF r.p_cnt_ = NULL
       THEN /\ handles' = Drop(r)
            /\ last' = [NoOp EXCEPT !.op = "~RefMut"]
            /\ UNCHANGED <<cells, violation>>
       ELSE \E i \in CounterReads(r.p_cnt_) :          \* auto i = (*p_cnt_)++
            /\ last' = [NoOp EXCEPT !.op = "~RefMut", !.cell = r.p_cnt_, !.i = i,
                                    !.p = r.raw_]
            /\ cells' = Store(r.p_cnt_, Inc(i))
            /\ IF ~RefMut_dtor_verify(i)
                 THEN /\ violation' = "error in checking just single reference of RefMut"
                      /\ UNCHANGED handles
                 ELSE /\ handles' = Drop(r)
                      /\ violation' = violation
  /\ UNCHANGED <<heap, fault>>
  /\ Whole

\* Ref(Ref&), Ref::reset and RefMut::reset dereference p_cnt_ without a test: on a
\* moved-from or already released handle that is a null dereference
NullDeref(r) ==
  /\ Running
  /\ r.p_cnt_ = NULL
  /\ fault' = TRUE
  /\ last'  = [NoOp EXCEPT !.op = "*nullptr"]
  /\ UNCHANGED <<cells, handles, heap, violation>>
  /\ Whole

\* start of a round trip on c: the counter is c >= 0, no violation so far
RoundTripBegin(c) ==
  /\ Running
  /\ rt.st = "idle"
  /\ cells[c].st = "alive"
  /\ cells[c].cnt_ >= 0
  /\ rt' = [st |-> "open", cell |-> c, base |-> cells[c].cnt_, pend |-> 0, peak |-> 0]
  /\ UNCHANGED <<cells, handles, heap, violation, fault, last, cyc, given, calls>>

\* start of the cycles on c: c holds a value and its counter is 0
CyclesBegin(c) ==
  /\ Running
  /\ cyc.st = "idle"
  /\ cells[c].st = "alive"
  /\ cells[c].raw_ # NULL
  /\ cells[c].cnt_ = 0
  /\ cyc' = [st |-> "open", cell |-> c, n |-> 0, held |-> FALSE]
  /\ UNCHANGED <<cells, handles, heap, violation, fault, last, rt, given, calls>>

\* ------------------------------------------------------------ specification
Next ==
  \/ \E p \in NewValues : RefCell_ctor(p)
  \/ \E c \in Cells : RefCell_move(c)
  \/ \E c \in Cells, p \in NewValues : RefCell_reset_p(c, p)
  \/ \E c \in Cells : borrow_mut(c)
  \/ \E c \in Cells : borrow_const(c)
  \/ \E c \in Cells : RefCell_arrow(c)
  \/ \E c \in Cells : RefCell_reset(c)
  \/ \E c \in Cells : RefCell_dtor(c)
  \/ \E r \in Handles : Ref_copy(r)
  \/ \E r \in Handles : Ref_move(r)
  \/ \E r \in Handles : Ref_reset(r)
  \/ \E r \in Handles : Ref_dtor(r)
  \/ \E r \in Handles : RefMut_move(r)
  \/ \E r \in Handles : RefMut_reset(r)
  \/ \E r \in Handles : RefMut_dtor(r)
  \/ \E r \in Handles : NullDeref(r)


\* the operations of the program, one at a time
Spec == Init /\ [][Next]_vars

\* One shared round trip observed: RefCells are made and given values, borrowed
\* and released, and at some moment RoundTripBegin notes the counter of one.
NextRoundTrip ==
  \/ \E c \in Cells : RoundTripBegin(c)
  \/ \E p \in NewValues : RefCell_ctor(p)
  \/ \E c \in Cells, p \in NewValues : RefCell_reset_p(c, p)
  \/ \E c \in Cells : borrow_mut(c)
  \/ \E c \in Cells : borrow_const(c)
  \/ \E r \in Handles : Ref_copy(r)
  \/ \E r \in Handles : Ref_move(r)
  \/ \E r \in Handles : Ref_reset(r)
  \/ \E r \in Handles : Ref_dtor(r)
  \/ \E r \in Handles : RefMut_move(r)
  \/ \E r \in Handles : RefMut_reset(r)
  \/ \E r \in Handles : RefMut_dtor(r)

SpecRoundTrip == Init /\ [][NextRoundTrip]_vars

\* One run of exclusive borrow cycles observed, in the same way.
NextCycles ==
  \/ \E c \in Cells : CyclesBegin(c)
  \/ \E p \in NewValues : RefCell_ctor(p)
  \/ \E c \in Cells, p \in NewValues : RefCell_reset_p(c, p)
  \/ \E c \in Cells : borrow_mut(c)
  \/ \E c \in Cells : borrow_const(c)
  \/ \E r \in Handles : Ref_copy(r)
  \/ \E r \in Handles : Ref_move(r)
  \/ \E r \in Handles : Ref_reset(r)
  \/ \E r \in Handles : Ref_dtor(r)
  \/ \E r \in Handles : RefMut_move(r)
  \/ \E r \in Handles : RefMut_reset(r)
  \/ \E r \in Handles : RefMut_dtor(r)

SpecCycles == Init /\ [][NextCycles]_vars

\* The one-call-at-a-time client, with the values given to each RefCell observed.
InitValues ==
  /\ Empty
  /\ given = [c \in Cells |-> NULL]

SpecValues == InitValues /\ [][Next]_vars

\* ------------------------------------------------------------------ threads
\* With several threads the three member functions that access cnt_ and then go
\* on are taken in steps: each step below is one atomic access of cnt_ with the
\* thread's own work around it.  A call under way is an element of `calls': the
\* step it takes next (pc), the RefCell it was called on, the value it read from
\* cnt_ and, for a move, the object under construction.  The other member
\* functions of Ref and RefMut access cnt_ once and touch only the handle of the
\* calling thread besides: the actions above are their steps.
MkCall(pc, c, i, dst, ovl) == [pc |-> pc, cell |-> c, i |-> i, dst |-> dst, ovl |-> ovl]
CanCall == BagCardinality(calls) < MaxCalls

\* History of overlap, for the calls of a RefCell move and of a borrow of its
\* source: ovl is set in both when one starts while the other is under way.
\* Overlapped(pcs, c) is `calls' with ovl set in the calls at pcs on c.
Overlapped(pcs, c) ==
  LET hit(k)  == k.pc \in pcs /\ k.cell = c
      mark(k) == IF hit(k) THEN [k EXCEPT !.ovl = TRUE] ELSE k
      S       == {mark(k) : k \in BagToSet(calls)}
  IN  [m \in S |-> CopiesIn(m, calls)
                    + (IF hit(m) THEN CopiesIn([m EXCEPT !.ovl = FALSE], calls) ELSE 0)]
\* call k returns: it ends an overlap when it is the last of the calls with ovl
Returns(k) == calls (-) SetToBag({k})
EndsOverlap(k) == k.ovl /\ \A o \in BagToSet(Returns(k)) : ~o.ovl

\* raw_ is a plain field.  The store raw_ = nullptr of a borrow_mut is sequenced
\* after its last access of cnt_, so while the RefMut it returned is unreleased
\* nothing orders that store before a read of raw_ by another thread: the read
\* is a data race and yields the null stored or the pointer the RefMut took.
RawReads(c) ==
  {cells[c].raw_} \cup {r.raw_ : r \in {h \in Handles : h.kind = "RefMut" /\ h.p_cnt_ = c}}

\* borrow_mut, first step: RefMut<T> mut; borrow_verify(cnt_ == 0, ...)
borrow_mut_check(c) ==
  /\ Running
  /\ cells[c].st = "alive"
  /\ CanCall
  /\ last' = [NoOp EXCEPT !.op = "borrow_mut:verify", !.cell = c, !.i = cells[c].cnt_]
  /\ IF ~borrow_mut_verify(cells[c].cnt_)
       THEN /\ violation' = "verify failed in borrow_mut"
            /\ UNCHANGED calls
       ELSE /\ HasRoom
            /\ calls' = Overlapped({"finish"}, c)
                       (+) SetToBag({MkCall("cnt_--", c, cells[c].cnt_, NULL,
                                            InProgress({"finish"}, c) > 0)})
            /\ violation' = violation
  /\ UNCHANGED <<cells, handles, heap, fault>>
  /\ Observe

\* borrow_mut, second step: cnt_--; mut.p_cnt_ = &cnt_; mut.raw_ = raw_;
\* raw_ = nullptr; return mut
borrow_mut_take(k) ==
  /\ Running
  /\ k.pc = "cnt_--"
  /\ \E v \in RawReads(k.cell) :
       /\ cells' = [cells EXCEPT ![k.cell].cnt_ = Dec(cells[k.cell].cnt_),
                                 ![k.cell].raw_ = NULL]
       /\ handles' = Put(MkHandle("RefMut", v, k.cell))
       /\ last' = [NoOp EXCEPT !.op = "borrow_mut", !.cell = k.cell, !.i = k.i, !.p = v,
                               !.raced = EndsOverlap(k)]
  /\ calls' = Returns(k)
  /\ UNCHANGED <<heap, violation, fault>>
  /\ Observe

\* borrow_const's first step as it would be if cnt_++ were a plain load followed by
\* a store of the value loaded plus one: the store undoes what other threads
\* added in between, which here are the increments of the calls under way
borrow_const_inc_plain(c) ==
  /\ Running
  /\ cells[c].st = "alive"
  /\ CanCall
  /\ LET i == cells[c].cnt_ - InProgress({"return"}, c) IN
       /\ last' = [NoOp EXCEPT !.op = "borrow_const:cnt_++", !.cell = c, !.i = i]
       /\ cells' = [cells EXCEPT ![c].cnt_ = Inc(i)]
       /\ IF ~borrow_const_verify(i)
            THEN /\ violation' = "verify failed in borrow_const"
                 /\ UNCHANGED calls
            ELSE /\ HasRoom
                 /\ calls' = Overlapped({"finish"}, c)
                            (+) SetToBag({MkCall("return", c, i, NULL,
                                                 InProgress({"finish"}, c) > 0)})
                 /\ violation' = violation
  /\ UNCHANGED <<handles, heap, fault>>
  /\ Observe

\* borrow_const, first step: auto i = cnt_++; borrow_verify(i >= 0, ...)
borrow_const_inc(c) ==
  /\ Running
  /\ cells[c].st = "alive"
  /\ CanCall
  /\ LET i == cells[c].cnt_ IN
       /\ last' = [NoOp EXCEPT !.op = "borrow_const:cnt_++", !.cell = c, !.i = i]
       /\ cells' = [cells EXCEPT ![c].cnt_ = Inc(i)]
       /\ IF ~borrow_const_verify(i)
            THEN /\ violation' = "verify failed in borrow_const"
                 /\ UNCHANGED calls
            ELSE /\ HasRoom
                 /\ calls' = Overlapped({"finish"}, c)
                            (+) SetToBag({MkCall("return", c, i, NULL,
                                                 InProgress({"finish"}, c) > 0)})
                 /\ violation' = violation
  /\ UNCHANGED <<handles, heap, fault>>
  /\ Observe

\* borrow_const, second step: Ref<T> ref; ref.raw_ = raw_; ref.p_cnt_ = &cnt_;
\* return ref
borrow_const_ret(k) ==
  /\ Running
  /\ k.pc = "return"
  /\ \E v \in RawReads(k.cell) :
       /\ handles' = Put(MkHandle("Ref", v, k.cell))
       /\ last' = [NoOp EXCEPT !.op = "borrow_const", !.cell = k.cell, !.i = k.i, !.p = v,
                               !.raced = EndsOverlap(k)]
  /\ calls' = Returns(k)
  /\ UNCHANGED <<cells, heap, violation, fault>>
  /\ Observe

\* The first step of the move as it would be with a compare-and-exchange of 0 for
\* -2: a source that is borrowed keeps its counter
RefCell_move_exchange_cas(src) ==
  /\ Running
  /\ cells[src].st = "alive"
  /\ CanCall
  /\ UnbornCells # {}
  /\ LET dst == Min(UnbornCells)
         i   == cells[src].cnt_
     IN
       /\ last' = [NoOp EXCEPT !.op = "RefCell(RefCell&&):exchange", !.cell = src,
                               !.i = i, !.dst = dst]
       /\ IF ~RefCell_move_verify(i)
            THEN /\ violation' = "verify failed in RefCell move constructor"
                 /\ UNCHANGED <<cells, calls>>
            ELSE /\ cells' = [cells EXCEPT
                                ![src].cnt_ = -2,
                                ![dst] = [st |-> "constructing", raw_ |-> NULL, cnt_ |-> 0]]
                 /\ calls' = Overlapped({"cnt_--", "return"}, src)
                            (+) SetToBag({MkCall("finish", src, i, dst,
                                                 InProgress({"cnt_--", "return"}, src) > 0)})
                 /\ violation' = violation
  /\ UNCHANGED <<handles, heap, fault>>
  /\ Observe

\* RefCell(RefCell&& p), first step: the members of the new object are
\* initialised (raw_{nullptr}, cnt_{0}); auto i = p.cnt_.exchange(-2);
\* borrow_verify(i == 0, ...)
RefCell_move_exchange(src) ==
  /\ Running
  /\ cells[src].st = "alive"
  /\ CanCall
  /\ UnbornCells # {}
  /\ LET dst == Min(UnbornCells)
         i   == cells[src].cnt_
     IN
       /\ last' = [NoOp EXCEPT !.op = "RefCell(RefCell&&):exchange", !.cell = src,
                               !.i = i, !.dst = dst]
       /\ IF ~RefCell_move_verify(i)
            THEN /\ cells' = [cells EXCEPT ![src].cnt_ = -2]
                 /\ violation' = "verify failed in RefCell move constructor"
                 /\ UNCHANGED calls
            ELSE /\ cells' = [cells EXCEPT
                                ![src].cnt_ = -2,
                                ![dst] = [st |-> "constructing", raw_ |-> NULL, cnt_ |-> 0]]
                 /\ calls' = Overlapped({"cnt_--", "return"}, src)
                            (+) SetToBag({MkCall("finish", src, i, dst,
                                                 InProgress({"cnt_--", "return"}, src) > 0)})
                 /\ violation' = violation
  /\ UNCHANGED <<handles, heap, fault>>
  /\ Observe

\* RefCell(RefCell&& p), the rest: borrow_verify(cnt_ == 0, ...) on the new object
\* passes; cnt_ = i; raw_ = p.raw_; p.raw_ = nullptr; p.cnt_ = 0
RefCell_move_finish(k) ==
  /\ Running
  /\ k.pc = "finish"
  /\ \E v \in RawReads(k.cell) :
       /\ cells' = [cells EXCEPT
                      ![k.dst] = [st |-> "alive", raw_ |-> v, cnt_ |-> k.i],
                      ![k.cell].raw_ = NULL,
                      ![k.cell].cnt_ = 0]
       /\ last' = [NoOp EXCEPT !.op = "RefCell(RefCell&&)", !.cell = k.cell,
                               !.i = k.i, !.p = v, !.dst = k.dst,
                               !.raced = EndsOverlap(k)]
  /\ calls' = Returns(k)
  /\ UNCHANGED <<handles, heap, violation, fault>>
  /\ Observe

\* Threads that construct RefCells, borrow from them, move them, copy their Refs
\* and release their handles, in any interleaving of their steps.  A handle is
\* released by its destructor: reset() accesses the counter in the same way.
NextThreads ==
  \/ \E p \in NewValues : RefCell_ctor(p)
  \/ \E c \in Cells : borrow_mut_check(c)
  \/ \E k \in BagToSet(calls) : borrow_mut_take(k)
  \/ \E c \in Cells : borrow_const_inc(c)
  \/ \E k \in BagToSet(calls) : borrow_const_ret(k)
  \/ \E c \in Cells : RefCell_move_exchange(c)
  \/ \E k \in BagToSet(calls) : RefCell_move_finish(k)
  \/ \E r \in Handles : Ref_copy(r)
  \/ \E r \in Handles : Ref_dtor(r)
  \/ \E r \in Handles : RefMut_dtor(r)

SpecThreads == Init /\ [][NextThreads]_vars

\* Threads that only share: borrow_const, and copies, moves and releases of Ref.
NextShared ==
  \/ \E p \in NewValues : RefCell_ctor(p)
  \/ \E c \in Cells : borrow_const_inc(c)
  \/ \E k \in BagToSet(calls) : borrow_const_ret(k)
  \/ \E r \in Handles : Ref_copy(r)
  \/ \E r \in Handles : Ref_move(r)
  \/ \E r \in Handles : Ref_reset(r)
  \/ \E r \in Handles : Ref_dtor(r)

SpecShared == Init /\ [][NextShared]_vars

TypeOK ==
  /\ \A c \in Cells : /\ cells[c].st \in {"unborn", "constructing", "alive", "dead"}
                      /\ cells[c].raw_ \in Ptrs \cup {NULL}
                      /\ cells[c].cnt_ \in Int
  /\ IsABag(handles)
  /\ BagCardinality(handles) <= MaxHandles
  /\ \A r \in Handles : /\ r.kind \in {"Ref", "RefMut"}
                        /\ r.raw_ \in Ptrs \cup {NULL}
                        /\ r.p_cnt_ \in Cells \cup {NULL}
  /\ \A p \in Ptrs : heap[p] \in {"unalloc", "live", "deleted"}
  /\ fault \in BOOLEAN
  /\ given = NoValues \/ \A c \in Cells : given[c] \in Ptrs \cup {NULL}
  /\ IsABag(calls)
  /\ BagCardinality(calls) <= MaxCalls
  /\ \A k \in BagToSet(calls) : /\ k.pc \in {"cnt_--", "return", "finish"}
                                 /\ k.cell \in Cells
                                 /\ k.i \in Int
                                 /\ k.dst \in Cells \cup {NULL}
                                 /\ k.ovl \in BOOLEAN

\* ------------------------------------------------------------------- claims
\* handles of kind k whose p_cnt_ points at the counter of cell c (a released or
\* moved-from handle points nowhere and is not counted)
Live(k, c) ==
  LET S == {r \in Handles : r.kind = k /\ r.p_cnt_ = c}
  IN  BagCardinality([r \in S |-> handles[r]])
LiveRefs(c) == Live("Ref", c)
LiveMuts(c) == Live("RefMut", c)
AliveCells  == {c \in Cells : cells[c].st = "alive"}

\* C1: while no violation has been signalled, a RefCell has no live handle, or
\* only live Refs, or exactly one live RefMut: never two RefMuts, never a RefMut
\* together with a Ref.
AliasingExclusion ==
  violation = "" =>
    \A c \in AliveCells :
      /\ LiveMuts(c) <= 1
      /\ ~(LiveMuts(c) >= 1 /\ LiveRefs(c) >= 1)

\* C1 witness: two Refs are live on one RefCell and nothing was signalled
TwoSharedBorrowsLive ==
  \E c \in AliveCells : violation = "" /\ LiveRefs(c) >= 2 /\ LiveMuts(c) = 0

\* C2: between operations, while no violation has been signalled, cnt_ is 0 exactly
\* when no handle is live, n > 0 exactly when n Refs are live, and -1 exactly when
\* one RefMut is live.
CounterEncoding ==
  violation = "" =>
    \A c \in AliveCells :
      /\ cells[c].cnt_ = 0 <=> (LiveRefs(c) = 0 /\ LiveMuts(c) = 0)
      /\ cells[c].cnt_ > 0 => LiveRefs(c) = cells[c].cnt_
      /\ LiveRefs(c) > 0 => cells[c].cnt_ = LiveRefs(c)
      /\ cells[c].cnt_ = -1 <=> LiveMuts(c) = 1

\* C2 witness: the counter is 2 with two live Refs beside a released or moved-from one
CountsCopiesNotReleased ==
  \E c \in AliveCells :
    /\ violation = ""
    /\ cells[c].cnt_ = 2
    /\ LiveRefs(c) = 2
    /\ MkHandle("Ref", NULL, NULL) \in Handles

\* C3: borrow_const on a negative counter signals; borrow_mut on a non-zero counter
\* signals; a borrow_mut that signals nothing leaves its RefMut the only handle
\* (so one taken beside a live RefMut, or beside live Refs, has signalled).
AcquisitionRejected ==
  /\ (last.op = "borrow_const" /\ last.i < 0) => violation # ""
  /\ (last.op = "borrow_mut" /\ last.i # 0) => violation # ""
  /\ (last.op = "borrow_mut" /\ violation = "") =>
        (LiveMuts(last.cell) = 1 /\ LiveRefs(last.cell) = 0)

\* C3 witness: borrow_mut was called with two Refs live and signalled
BorrowMutRejectedWithTwoRefs ==
  /\ last.op = "borrow_mut"
  /\ last.i = 2
  /\ LiveRefs(last.cell) = 2
  /\ violation = "verify failed in borrow_mut"

\* C4: a Ref released by reset() or by its destructor signals exactly when the
\* value the decrement read is <= 0.
RefReleaseCheck ==
  (last.op \in {"Ref::reset", "~Ref"} /\ last.cell # NULL) =>
    (violation # "" <=> last.i <= 0)

\* C4 witness: a Ref release read a value <= 0 and signalled
RefReleaseSignalled ==
  /\ last.op \in {"Ref::reset", "~Ref"}
  /\ last.cell # NULL
  /\ last.i <= 0
  /\ violation # ""

\* C5: a RefMut released by reset() or by its destructor signals exactly when the
\* value the increment read is not -1; when it is -1 the counter becomes 0.
RefMutReleaseCheck ==
  (last.op \in {"RefMut::reset", "~RefMut"} /\ last.cell # NULL) =>
    /\ violation # "" <=> last.i # -1
    /\ (last.i = -1 /\ last.cell \in AliveCells) => cells[last.cell].cnt_ = 0

\* C5 witness: a RefMut release read a value other than -1 and signalled
RefMutReleaseSignalled ==
  /\ last.op \in {"RefMut::reset", "~RefMut"}
  /\ last.cell # NULL
  /\ last.i # -1
  /\ violation # ""

\* C6: from a counter c >= 0, Refs acquired by borrow_const or by copying and then
\* all released bring the counter back to c, and none of these operations signals.
SharedRoundTrip ==
  rt.st = "open" =>
    /\ last.cell = rt.cell => violation = ""
    /\ rt.pend = 0 => cells[rt.cell].cnt_ = rt.base

\* C6 witness: beside one earlier Ref, two Refs were live at once and both released
RoundTripOfTwoDone ==
  /\ rt.st = "open"
  /\ rt.base >= 1
  /\ rt.peak >= 2
  /\ rt.pend = 0
  /\ last.op \in {"Ref::reset", "~Ref"}

\* C7: on a RefCell holding a value with counter 0, consecutive cycles of borrow_mut
\* and release of that RefMut signal nothing, and the counter is 0 after each release.
ExclusiveReborrow ==
  cyc.st = "open" =>
    /\ last.cell = cyc.cell => violation = ""
    /\ ~cyc.held => cells[cyc.cell].cnt_ = 0
    /\ cyc.held => (cells[cyc.cell].cnt_ = -1 /\ LiveMuts(cyc.cell) = 1)

\* C7 witness: two full cycles are done
TwoCyclesDone ==
  /\ cyc.st = "open"
  /\ cyc.n >= 2
  /\ ~cyc.held
  /\ last.op \in {"RefMut::reset", "~RefMut"}

\* C8: moving a RefCell whose counter is 0 signals nothing, gives the new RefCell
\* counter 0 and the source's pointer, and leaves the source null with counter 0;
\* moving one whose counter is not 0 signals.
RefCellMove ==
  last.op = "RefCell(RefCell&&)" =>
    IF last.i = 0
      THEN /\ violation = ""
           /\ cells[last.dst] = [st |-> "alive", raw_ |-> last.p, cnt_ |-> 0]
           /\ cells[last.cell].raw_ = NULL
           /\ cells[last.cell].cnt_ = 0
      ELSE violation # ""

\* C8 witness: a RefCell holding a value was moved
ValueMoved ==
  /\ last.op = "RefCell(RefCell&&)"
  /\ last.i = 0
  /\ last.p # NULL
  /\ cells[last.dst].raw_ = last.p

\* C9: ~RefCell with a borrow handle of it outstanding always signals, whether or
\* not raw_ is set.
DestroyWhileBorrowedSignals ==
  (last.op = "~RefCell" /\ \E r \in Handles : r.p_cnt_ = last.cell) => violation # ""

\* C10: reset(T*), operator-> and reset() signal exactly when the counter is not 0
\* at the call and leave the counter as it was; with counter 0, reset(T*) makes its
\* argument the held pointer.
OwnerDirectOps ==
  last.op \in {"RefCell::reset(T*)", "RefCell::operator->", "RefCell::reset()"} =>
    /\ violation # "" <=> last.i # 0
    /\ cells[last.cell].cnt_ = last.i
    /\ (last.op = "RefCell::reset(T*)" /\ last.i = 0) => cells[last.cell].raw_ = last.p

\* C10 witness: reset(T*) was called with a borrow outstanding and signalled
ResetValueRejected ==
  /\ last.op = "RefCell::reset(T*)"
  /\ last.i # 0
  /\ last.p # NULL
  /\ violation = "error in RefCell reset"

\* C11: every live Ref or RefMut of a living RefCell that was given a value holds
\* a non-null pointer to that value, whatever borrows were taken and released
\* before.
HandlePointsToValue ==
  violation = "" =>
    \A r \in Handles :
      (/\ r.p_cnt_ # NULL
       /\ cells[r.p_cnt_].st = "alive"
       /\ given[r.p_cnt_] # NULL) => r.raw_ = given[r.p_cnt_]

\* C12: a successful borrow_mut leaves the RefCell's raw_ null and the returned
\* RefMut holding the pointer raw_ had; and raw_ of a living RefCell goes from
\* null to non-null by reset(T*) only, so no release of a RefMut writes it back.
BorrowMutStrandsPointer ==
  /\ []((last.op = "borrow_mut" /\ violation = "") =>
          /\ cells[last.cell].raw_ = NULL
          /\ MkHandle("RefMut", last.p, last.cell) \in Handles)
  /\ [][\A c \in Cells :
          (/\ cells[c].st = "alive" /\ cells[c].raw_ = NULL
           /\ cells'[c].st = "alive" /\ cells'[c].raw_ # NULL)
          => (last'.op = "RefCell::reset(T*)" /\ last'.cell = c)]_vars

\* C12 witness: a RefMut that holds the value of a living RefCell has been
\* released and the RefCell's raw_ is still null
PointerStrandedAfterRelease ==
  /\ last.op \in {"RefMut::reset", "~RefMut"}
  /\ violation = ""
  /\ last.cell # NULL
  /\ cells[last.cell].st = "alive"
  /\ cells[last.cell].cnt_ = 0
  /\ cells[last.cell].raw_ = NULL
  /\ last.p # NULL

\* C13: with threads borrowing from the same RefCell, a RefMut is never live
\* together with another RefMut or with a Ref of that RefCell unless a violation
\* was signalled.
NoUndetectedConflict ==
  violation = "" =>
    \A c \in AliveCells : LiveMuts(c) = 0 \/ (LiveMuts(c) = 1 /\ LiveRefs(c) = 0)

\* C14: when a RefCell move and a borrow_const or borrow_mut of its source have
\* overlapped and the last of them has returned, a violation was signalled.
RacedMoveSignalled ==
  last.raced => violation # ""

\* C15: threads that only take shared borrows, copy Refs and release Refs never
\* signal a violation, and the counter of every RefCell equals its live Refs
\* plus the borrow_const calls that have incremented it and not yet returned;
\* so once every call has returned, the counter equals the number of live Refs.
NoLostUpdate ==
  /\ violation = ""
  /\ \A c \in AliveCells : cells[c].cnt_ = LiveRefs(c) + InProgress({"return"}, c)
  /\ calls = EmptyBag => \A c \in AliveCells : cells[c].cnt_ = LiveRefs(c)

\* C15 witness: every call has returned, and the borrow_const that returned last
\* had read the counter before another increment that is still counted
SharedBorrowsOverlapped ==
  /\ last.op = "borrow_const"
  /\ calls = EmptyBag
  /\ violation = ""
  /\ cells[last.cell].cnt_ > last.i + 1
  /\ cells[last.cell].cnt_ = LiveRefs(last.cell)

\* C16: while no violation has been signalled, the counter of a RefCell is -2 only
\* while a move construction from it is between its exchange and its final
\* store, and no live Ref or RefMut refers to a counter whose value is -2.
SentinelOnlyInsideMove ==
  violation = "" =>
    \A c \in AliveCells :
      cells[c].cnt_ = -2 =>
        /\ InProgress({"finish"}, c) > 0
        /\ LiveRefs(c) = 0
        /\ LiveMuts(c) = 0

\* C17: a move construction of a Ref or RefMut changes no counter and no count of
\* live handles and leaves a moved-from handle with null p_cnt_; the destructor
\* of a handle whose p_cnt_ is null (released by reset(), or moved from) changes
\* no counter; and a release that passes its check changes the counter by one,
\* down for a Ref and up for a RefMut, and ends exactly that one handle's borrow.
EachBorrowUndoneOnce ==
  [][/\ last'.op \in {"Ref(Ref&&)", "RefMut(RefMut&&)"} =>
          /\ cells' = cells
          /\ \A c \in Cells : LiveRefs(c)' = LiveRefs(c) /\ LiveMuts(c)' = LiveMuts(c)
          /\ \E r \in Handles' : r.p_cnt_ = NULL /\ CopiesIn(r, handles') > CopiesIn(r, handles)
     /\ (last'.op \in {"~Ref", "~RefMut"} /\ last'.cell = NULL) => cells' = cells
     /\ \A c \in Cells :
          (/\ last'.op \in {"Ref::reset", "~Ref"}
           /\ last'.cell = c
           /\ cells[c].st = "alive"
           /\ violation' = "") =>
            /\ cells'[c].cnt_ = cells[c].cnt_ - 1
            /\ LiveRefs(c)' = LiveRefs(c) - 1
            /\ \A d \in Cells \ {c} : cells'[d] = cells[d]
     /\ \A c \in Cells :
          (/\ last'.op \in {"RefMut::reset", "~RefMut"}
           /\ last'.cell = c
           /\ cells[c].st = "alive"
           /\ violation' = "") =>
            /\ cells'[c].cnt_ = cells[c].cnt_ + 1
            /\ LiveMuts(c)' = LiveMuts(c) - 1
            /\ \A d \in Cells \ {c} : cells'[d] = cells[d]
    ]_vars

\* C17 witness: the destructor of a handle with null p_cnt_ ran while a Ref of a
\* living RefCell is live, and the counter still counts that Ref
NullHandleDestroyed ==
  /\ last.op = "~Ref"
  /\ last.cell = NULL
  /\ violation = ""
  /\ \E c \in AliveCells : cells[c].cnt_ = 1 /\ LiveRefs(c) = 1

DestructorDeletesValue ==
  (/\ last.op = "~RefCell"
   /\ last.i = 0
   /\ violation = ""
   /\ given[last.cell] # NULL) => heap[given[last.cell]] = "deleted"

\* C20: when borrow_const, borrow_mut, a Ref or RefMut release or a RefCell move
\* construction signals a violation, the counter holds the value the call found.
RejectedLeavesCounter ==
  (/\ violation # ""
   /\ last.op \in {"borrow_const", "borrow_const:cnt_++", "borrow_mut", "borrow_mut:verify",
                   "Ref::reset", "~Ref", "RefMut::reset", "~RefMut",
                   "RefCell(RefCell&&)", "RefCell(RefCell&&):exchange"}
   /\ cells[last.cell].st = "alive") => cells[last.cell].cnt_ = last.i

\* C20, amended: of these operations only borrow_mut signals with the counter as
\* it found it.  A borrow_const that signals leaves the counter one above the
\* value it found, a RefMut release too, a Ref release one below, and a move
\* construction leaves -2.
RejectedCounterValue ==
  (violation # "" /\ last.cell # NULL /\ cells[last.cell].st = "alive") =>
    LET cnt == cells[last.cell].cnt_ IN
      /\ last.op \in {"borrow_mut", "borrow_mut:verify"} => cnt = last.i
      /\ last.op \in {"borrow_const", "borrow_const:cnt_++"} => cnt = last.i + 1
      /\ last.op \in {"RefMut::reset", "~RefMut"} => cnt = last.i + 1
      /\ last.op \in {"Ref::reset", "~Ref"} => cnt = last.i - 1
      /\ last.op \in {"RefCell(RefCell&&)", "RefCell(RefCell&&):exchange"} => cnt = -2

\* C20 witness: borrow_const signalled on a RefCell with a live RefMut and left
\* its counter at 0
RejectedBorrowConstReadsFree ==
  /\ violation = "verify failed in borrow_const"
  /\ last.op = "borrow_const:cnt_++"
  /\ last.i = -1
  /\ cells[last.cell].cnt_ = 0
  /\ LiveMuts(last.cell) = 1

=============================================================================
